---- MODULE Spec2Model ----
(***************************************************************************)
(* Model of the approval-aware swap workflow of pcw-swap                   *)
(* (src/pcw-swap/src/app/page.tsx, first Page variant, lines 1-1420), of   *)
(* its helpers toUnits and toHex, and of the proxy routes under            *)
(* src/pcw-swap/src/app/api.                                               *)
(*                                                                         *)
(* Strings are atoms here.  A text (an error message, a raw HTTP body) is  *)
(* a sequence of segments; a regular-expression search over a text is a    *)
(* search over its segments.  Case folding and the address pattern are     *)
(* tables over the finite universe of segments the model draws from.       *)
(***************************************************************************)
EXTENDS Integers, Sequences, FiniteSets, TLC

(***************************************************************************)
(* Bounds of the model.                                                    *)
(***************************************************************************)
\* largest amount, in base units, the user asks to swap
MaxNeed == 1
\* most onSwap invocations followed besides the one whose steps are tracked
MaxOthers == 1
\* longest amount text passed to toUnits, and the largest decimals
MaxAmountLen == 4
MaxDecimals == 3
\* longest text, and the largest magnitude of a number, passed to toHex
MaxTextLen == 3
MaxNumber == 26
\* largest NEXT_PUBLIC_FEE_BPS configured
MaxFeeBps == 1000
\* longest RPC/timer overshoot added to one polling round, in units of 1000 ms
MaxLatency == 1
MaxEdits == 3
MaxSelects == 4

(***************************************************************************)
(* Program constants.                                                      *)
(***************************************************************************)
NATIVE == "0xEeeeeEeeeEeEeeEeEeEeeEEEeeeeEeeeeeeeEEeE"
NATIVE_LC == "0xeeeeeeeeeeeeeeeeeeeeeeeeeeeeeeeeeeeeeeee"
\* an ERC-20 contract address (any non-native token)
TOKEN_X == "0x55d398326f99059fF775485246999027B3197955"
TOKEN_X_LC == "0x55d398326f99059ff775485246999027b3197955"

ONE_INCH_V6_SPENDER == "0x1111111254EEB25477B68fb85Ed929f73A960582"

\* doApprove: while (Date.now() - start < 30000), setTimeout(r, 2000); in units of 1000 ms
PollWindow == 30
PollInterval == 2

\* Page: useState<number>(56)
DefaultChainId == 56
OtherChainId == 1

\* "no value": null, undefined and the empty string are all falsy in the code's tests
Nil == ""

(***************************************************************************)
(* The universe of text segments.                                          *)
(***************************************************************************)
PHRASE == "Not enough allowance"
PHRASE_UC == "NOT ENOUGH ALLOWANCE"
PHRASE_LC == "not enough allowance"
UNRELATED == "insufficient liquidity"

\* two spender contracts an aggregator may name, and the router a built tx calls
SP_A == "0xaaaaaaaaaaaaaaaaaaaaaaaaaaaaaaaaaaaaaaaa"
SP_B == "0xbbbbbbbbbbbbbbbbbbbbbbbbbbbbbbbbbbbbbbbb"
ROUTER == "0x111111125421ca6dc452d289314280a0f8842a65"
\* 0x followed by 3 hex digits: too short to hold an address
SHORT_HEX == "0x123"
\* SP_B followed by two more hex digits: not an address, but it holds one
LONG_HEX == "0xbbbbbbbbbbbbbbbbbbbbbbbbbbbbbbbbbbbbbbbbff"

Addresses == {SP_A, SP_B, ROUTER, ONE_INCH_V6_SPENDER, NATIVE, NATIVE_LC, TOKEN_X, TOKEN_X_LC}

\* String.prototype.toLowerCase over the universe
toLowerCase(s) ==
    CASE s = NATIVE -> NATIVE_LC
      [] s = TOKEN_X -> TOKEN_X_LC
      [] s = PHRASE -> PHRASE_LC
      [] s = PHRASE_UC -> PHRASE_LC
      [] s = ONE_INCH_V6_SPENDER -> "0x1111111254eeb25477b68fb85ed929f73a960582"
      [] OTHER -> s

\* /^0x[a-fA-F0-9]{40}$/.test(s): the whole string is an address
isAddress(s) == s \in Addresses

\* the first match of /0x[a-fA-F0-9]{40}/ inside one segment, or Nil
AddressIn(seg) ==
    IF seg \in Addresses THEN seg
    ELSE IF seg = LONG_HEX THEN SP_B
    ELSE Nil

\* String.prototype.match(/0x[a-fA-F0-9]{40}/) over a text: m ? m[0] : null
RECURSIVE FirstAddress(_)
FirstAddress(text) ==
    IF text = <<>> THEN Nil
    ELSE IF AddressIn(Head(text)) # Nil THEN AddressIn(Head(text))
    ELSE FirstAddress(Tail(text))

\* /Not enough allowance/i.test(text)
TestAllowancePhrase(text) ==
    \E i \in 1..Len(text) : toLowerCase(text[i]) = PHRASE_LC

(***************************************************************************)
(* HTTP replies of the /api/oneinch/swap proxy.                            *)
(*                                                                         *)
(* A body is either a JSON document or plain text.  Of a JSON document the *)
(* model keeps the members the workflow reads: error, data.spender,        *)
(* data.allowanceTarget, spender, allowanceTarget and the shape of the     *)
(* transaction payload.                                                    *)
(***************************************************************************)
\* shapes of the payload: data.tx = {to, data}; data = {to, data};
\* data.tx = {data} with no `to`; no payload at all
TxShapes == {"nested", "flat", "noTo", "none"}

JsonBody(err, dSp, dTg, tSp, tTg, tx) ==
    [isJson |-> TRUE, error |-> err, data_spender |-> dSp, data_allowanceTarget |-> dTg,
     spender |-> tSp, allowanceTarget |-> tTg, tx |-> tx, text |-> <<>>]

TextBody(text) ==
    [isJson |-> FALSE, error |-> <<>>, data_spender |-> Nil, data_allowanceTarget |-> Nil,
     spender |-> Nil, allowanceTarget |-> Nil, tx |-> "none", text |-> text]

\* a member's text as it stands in the serialized document (nothing when absent)
Member(v) == IF v = Nil THEN <<>> ELSE <<v>>

\* r.text(): the body as text.  A JSON document serializes its members in the order
\* error, data.tx.to, data.spender, data.allowanceTarget, spender, allowanceTarget.
BodyText(body) ==
    IF ~body.isJson THEN body.text
    ELSE body.error
         \o (IF body.tx \in {"nested", "flat"} THEN <<ROUTER>> ELSE <<>>)
         \o Member(body.data_spender) \o Member(body.data_allowanceTarget)
         \o Member(body.spender) \o Member(body.allowanceTarget)

\* let j = {}; try { j = JSON.parse(txt) } catch {}
ParseJson(body) ==
    IF body.isJson
    THEN [kind |-> "object", error |-> body.error, data_spender |-> body.data_spender,
          data_allowanceTarget |-> body.data_allowanceTarget, spender |-> body.spender,
          allowanceTarget |-> body.allowanceTarget, tx |-> body.tx]
    ELSE [kind |-> "object", error |-> <<>>, data_spender |-> Nil,
          data_allowanceTarget |-> Nil, spender |-> Nil, allowanceTarget |-> Nil,
          tx |-> "none"]

\* a JavaScript string value, as extractSpender(first.raw) receives it
JsString(text) == [kind |-> "string", text |-> text]

\* build(): return { ok: r.ok, json: j, raw: txt }
build(reply) ==
    [ok |-> reply.ok, json |-> ParseJson(reply.body), raw |-> BodyText(reply.body)]

\* a || b: the first truthy operand, else the last
Or(a, b) == IF a # Nil THEN a ELSE b

\* extractSpender(obj): the explicit member if it is an address, else the first
\* address inside the error text (an object) or inside the string itself
extractSpender(obj) ==
    LET s == IF obj.kind = "object"
             THEN Or(obj.data_spender, Or(obj.data_allowanceTarget,
                     Or(obj.spender, obj.allowanceTarget)))
             ELSE Nil
        text == IF obj.kind = "object" THEN obj.error ELSE obj.text
    IN  IF s # Nil /\ isAddress(s) THEN s ELSE FirstAddress(text)

containsAllowanceError_case_sensitive(j, raw) ==
    (\E i \in 1..Len(j.error) : j.error[i] = PHRASE)
    \/ (\E i \in 1..Len(raw) : raw[i] = PHRASE)

\* containsAllowanceError(j, raw)
containsAllowanceError(j, raw) ==
    TestAllowancePhrase(j.error) \/ TestAllowancePhrase(raw)

PayloadValid_accepts_missing_to(j) == j.tx # "none"

\* first.json?.data?.tx || first.json?.data, then !payload?.to || !payload?.data
PayloadValid(j) == j.tx \in {"nested", "flat"}

\* srcToken.address.toLowerCase() === NATIVE.toLowerCase()
isNativeToken_exact_case(addr) == addr = NATIVE

isNativeToken(addr) == toLowerCase(addr) = toLowerCase(NATIVE)

(***************************************************************************)
(* State.                                                                  *)
(***************************************************************************)
VARIABLES
    \* React state of Page read by onSwap
    account,          \* connected account, or Nil
    srcToken,         \* address of the selected source token, or Nil
    needUnits,        \* toUnits(srcAmt, srcToken.decimals)
    spender,          \* cached spender of the selected chain, or Nil
    \* the environment
    hasWallet,        \* window.ethereum is present
    walletChainId,    \* the wallet's active chain
    allowance,        \* on chain: allowance(owner, s) of the source token, per spender s
    pending,          \* approval transactions signed but not yet mined
    \* locals of one onSwap invocation
    pc,               \* the await the invocation is suspended at
    first,            \* `first`: the latest build() result, <<>> before the first
    spenderFromError,
    spenderToUse,
    elapsed,          \* doApprove: Date.now() - start, in units of 1000 ms
    polls,            \* doApprove: allowance reads the running poll loop has made
    \* what an observer of the invocation sees
    approved,         \* what doApprove returned: "none", "true", "false"
    preRead,          \* the allowance doApprove read before approving, -1 if none
    firstResult,      \* the result of the first build(), <<>> before it
    report,           \* the alert() shown, "none" if none
    events,           \* the requests issued and the wallet's answers, in order
    \* the page besides the invocation followed above
    others,           \* onSwap invocations in flight besides it
    \* one call of toUnits
    amount,           \* the amount text, a sequence of characters
    decimals,         \* the token's decimals
    units,            \* what the call returned, <<>> before it
    \* calls of toHex
    val,              \* the value passed to the first call
    hex,              \* what toHex(val) returned, <<>> before it
    hexAgain,         \* what toHex(toHex(val)) returned, <<>> before it
    \* one request to a proxy route
    route,            \* the handler that serves it
    request,          \* what the handler reads of the request and of its environment
    upstream,         \* how the 1inch API answers the handler's fetch
    response,         \* the handler's outcome, NotCalled before it
    forwarded,        \* the request the handler sent upstream, NotCalled if none
    \* the building of one swap transaction request
    payload,          \* the numeric fields of the build result's payload
    txParams,         \* the request handed to eth_sendTransaction, NotCalled before it
    \* the quote effect of Page
    inputGen,         \* how many times the quote's inputs have changed
    debounce,         \* debounceRef: the inputs the pending timer was set for, 0 if none
    inflight,         \* the inputs of the quote requests awaiting their answer
    quote,            \* the inputs the held quote was computed for, 0 if none
    quoting,          \* the `quoting` flag
    impact,           \* the inputs the shown price impact was computed for, 0 if none
    \* one call of readAllowance
    raToken,          \* token.address
    raWallet,         \* whether window.ethereum exists
    raAnswer,         \* what the wallet answers to eth_call
    raResult,         \* what the call returned or threw, NotCalled before it
    \* the chain-change effect of Page
    chainId,          \* the selected chain
    loads,            \* the runs of the effect suspended at an await
    tokensFor,        \* the chain the token list held was fetched for, 0 if none
    spenderFor,       \* the chain the cached spender was fetched for, 0 if null
    \* the decimals read of the token-metadata endpoint
    decHex,           \* what rpcCall(rpc, addr, SEL_DECIMALS) yields
    tokenDecimals     \* token.decimals of the response, NotCalled before it

vars == <<account, srcToken, needUnits, spender, hasWallet, walletChainId, allowance,
          pending, pc, first, spenderFromError, spenderToUse, elapsed, polls, approved,
          preRead, firstResult, report, events, others, amount, decimals, units, val,
          hex, hexAgain, route, request, upstream, response, forwarded, payload,
          txParams, inputGen, debounce, inflight, quote, quoting, impact, raToken,
          raWallet, raAnswer, raResult, chainId, loads, tokensFor, spenderFor, decHex,
          tokenDecimals>>

inputs == <<account, srcToken, needUnits, spender, hasWallet>>
chain == <<allowance, pending>>
locals == <<first, spenderFromError, spenderToUse, elapsed, polls>>
observed == <<approved, preRead, firstResult>>
workflow == <<inputs, walletChainId, chain, pc, locals, observed, report, events>>
unitsCall == <<amount, decimals, units>>
hexCalls == <<val, hex, hexAgain>>
proxyCall == <<route, request, upstream, response, forwarded>>
txCall == <<payload, txParams>>
quoteEffect == <<inputGen, debounce, inflight, quote, quoting, impact>>
allowanceCall == <<raToken, raWallet, raAnswer, raResult>>
chainEffect == <<chainId, loads, tokensFor, spenderFor>>
metaCall == <<decHex, tokenDecimals>>
aside == <<allowanceCall, chainEffect, metaCall>>
\* everything outside the invocation of onSwap that the workflow actions follow
outside == <<others, unitsCall, hexCalls, proxyCall, txCall, quoteEffect, aside>>

OWNER == "0x75c030008c85BBFbCbDf87F54AAb22B1414Df559"

\* stands for 2^256 - 1 (approveUnlimited): above every amount the model draws
MAX_UINT256 == MaxNeed + 1

Spenders == {SP_A, SP_B, ROUTER, ONE_INCH_V6_SPENDER}

\* allowances on chain before the run: nothing approved, or one spender approved for
\* some amount up to MaxNeed
AllowanceProfiles ==
    {[s \in Spenders |-> IF s = t THEN v ELSE 0] : t \in Spenders, v \in 0..MaxNeed}

\* what the /api/oneinch/spender proxy may answer: nothing usable, or an address
FetchedSpenders == {Nil, SHORT_HEX, ROUTER}

\* the spender an approve transaction built by /api/oneinch/approve/transaction
\* authorizes: the aggregator's choice, not the caller's
ProxySpenders == {SP_A, ONE_INCH_V6_SPENDER}

ApproveAmount_exact(path) == needUnits

\* lines 259-262, 277-280: the amount approveUnlimited asks the approve proxy
\* for ("proxy") and the amount it encodes in the raw approve ("raw"): 64 f's
ApproveAmount(path) == MAX_UINT256

\* the approvals /api/oneinch/approve/transaction builds for a requested amount:
\* approve(spender, amount) for the aggregator's spender
ProxyApprovals(amt) == [spender : ProxySpenders, value : {amt}, path : {"proxy"}]

\* lines 277-282: the raw approve(spender, max) for the caller's spender
RawApproval(sp) == [spender |-> sp, value |-> ApproveAmount("raw"), path |-> "raw"]

(***************************************************************************)
(* Replies the swap proxy gives in the workflow.                           *)
(***************************************************************************)
Bodies ==
    { JsonBody(<<>>, Nil, Nil, Nil, Nil, "nested"),
      JsonBody(<<>>, Nil, Nil, Nil, Nil, "flat"),
      JsonBody(<<>>, Nil, Nil, Nil, Nil, "noTo"),
      JsonBody(<<PHRASE, SP_A>>, Nil, Nil, Nil, Nil, "none"),
      JsonBody(<<PHRASE_UC>>, Nil, Nil, Nil, Nil, "nested"),
      JsonBody(<<UNRELATED>>, Nil, Nil, Nil, Nil, "none"),
      JsonBody(<<PHRASE, SP_A>>, SP_B, Nil, Nil, Nil, "none"),
      JsonBody(<<PHRASE, SP_A>>, SHORT_HEX, SP_B, Nil, Nil, "none"),
      TextBody(<<PHRASE_LC, LONG_HEX>>),
      TextBody(<<UNRELATED>>) }

Replies == [ok : BOOLEAN, body : Bodies]

Count(e) == Cardinality({i \in 1..Len(events) : events[i] = e})

\* position of the first e in the log, 0 if none
IndexOf(e) ==
    IF \E i \in 1..Len(events) : events[i] = e
    THEN CHOOSE i \in 1..Len(events) : events[i] = e /\ \A k \in 1..(i - 1) : events[k] # e
    ELSE 0

(***************************************************************************)
(* ensureChain(chainId): the requests it sends to the wallet and the       *)
(* wallet's answers.  The set of outcomes: the result, the wallet's chain  *)
(* afterwards, the message of the error thrown, and the requests and       *)
(* failing answers in order.  "unrecognized" is the wallet's error 4902.   *)
(***************************************************************************)
ensureChain(current, target) ==
    {[result |-> "throw", chain |-> current, message |-> "switchNetwork",
      log |-> <<"eth_chainId", "rejected">>]}
    \cup
    (IF current = target
     THEN {[result |-> "ok", chain |-> current, message |-> Nil, log |-> <<"eth_chainId">>]}
     ELSE {[result |-> "ok", chain |-> target, message |-> Nil,
            log |-> <<"eth_chainId", "switchChain">>],
           [result |-> "throw", chain |-> current, message |-> "switchNetwork",
            log |-> <<"eth_chainId", "switchChain", "rejected">>],
           [result |-> "throw", chain |-> current, message |-> "addNetwork",
            log |-> <<"eth_chainId", "switchChain", "unrecognized">>]})

(***************************************************************************)
(* Init: the page before a click on Swap.                                  *)
(***************************************************************************)
\* no call of toUnits is followed
NoUnitsCall == amount = <<>> /\ decimals = 0 /\ units = <<>>

\* "no value yet" where the values are records
NotCalled == [kind |-> "none"]

\* no call of toHex is followed
NoHexCalls == val = NotCalled /\ hex = NotCalled /\ hexAgain = NotCalled

\* no proxy request is followed
NoProxyCall ==
    /\ route = Nil
    /\ request = NotCalled
    /\ upstream = NotCalled
    /\ response = NotCalled
    /\ forwarded = NotCalled

\* no building of a transaction request is followed
NoTxCall == payload = NotCalled /\ txParams = NotCalled

\* the quote effect is not followed
NoQuoteEffect ==
    /\ inputGen = 0 /\ debounce = 0 /\ inflight = {} /\ quote = 0 /\ quoting = FALSE
    /\ impact = 0

\* no call of readAllowance is followed
NoAllowanceCall ==
    raToken = Nil /\ raWallet = FALSE /\ raAnswer = NotCalled /\ raResult = NotCalled

\* the chain-change effect is not followed
NoChainEffect ==
    chainId = DefaultChainId /\ loads = {} /\ tokensFor = 0 /\ spenderFor = 0

\* no decimals read is followed
NoMetaCall == decHex = NotCalled /\ tokenDecimals = NotCalled

NoAside == NoAllowanceCall /\ NoChainEffect /\ NoMetaCall

Init ==
    /\ NoUnitsCall
    /\ NoHexCalls
    /\ NoProxyCall
    /\ NoTxCall
    /\ NoQuoteEffect
    /\ NoAside
    /\ others = 0
    /\ account \in {Nil, OWNER}
    /\ srcToken \in {Nil, NATIVE, NATIVE_LC, TOKEN_X}
    /\ needUnits \in 0..MaxNeed
    /\ spender \in {Nil, SP_B}
    /\ hasWallet \in BOOLEAN
    /\ walletChainId \in {DefaultChainId, OtherChainId}
    /\ allowance \in AllowanceProfiles
    /\ pending = {}
    /\ pc = "idle"
    /\ first = <<>>
    /\ spenderFromError = Nil
    /\ spenderToUse = Nil
    /\ elapsed = 0
    /\ polls = 0
    /\ approved = "none"
    /\ preRead = -1
    /\ firstResult = <<>>
    /\ report = "none"
    /\ events = <<>>

(***************************************************************************)
(* Continuations of onSwap: the code run between two awaits.               *)
(***************************************************************************)
Alert_without_return(msg, log) ==
    IF msg \in {"buildFailed", "invalidPayload", "pending"}
    THEN /\ pc' = "awaitSwapTx"
         /\ report' = msg
         /\ events' = Append(Append(log, "alert"), "swapTx")
    ELSE /\ pc' = "done"
         /\ report' = msg
         /\ events' = Append(log, "alert")

\* return alert(msg)
Alert(msg, log) ==
    /\ pc' = "done"
    /\ report' = msg
    /\ events' = Append(log, "alert")

\* a rejected await that no try block of onSwap encloses: the promise onSwap returned
\* rejects, nothing is shown
Throw(log) ==
    /\ pc' = "done"
    /\ report' = "none"
    /\ events' = Append(log, "throw")

SubmitOrReport_rebuild_on_failure(res, log) ==
    IF ~res.ok /\ Len(log) < 12
    THEN /\ pc' = "awaitBuild2"
         /\ report' = report
         /\ events' = Append(log, "build")
    ELSE IF ~res.ok THEN Alert("buildFailed", log)
    ELSE IF ~PayloadValid(res.json) THEN Alert("invalidPayload", log)
    ELSE /\ pc' = "awaitSwapTx"
         /\ report' = report
         /\ events' = Append(log, "swapTx")

\* lines 966-998: report a failed build or an invalid payload, else hand the
\* transaction to the wallet
SubmitOrReport(res, log) ==
    IF ~res.ok THEN Alert("buildFailed", log)
    ELSE IF ~PayloadValid(res.json) THEN Alert("invalidPayload", log)
    ELSE /\ pc' = "awaitSwapTx"
         /\ report' = report
         /\ events' = Append(log, "swapTx")

AfterEnsureChain_ignore_failure(o, log) ==
    /\ pc' = "awaitBuild1"
    /\ report' = report
    /\ events' = Append(log, "build")

\* lines 858-862, 946: catch (e) { return alert(e?.message || ..) }, else the first build()
AfterEnsureChain(o, log) ==
    IF o.result = "throw" THEN Alert(o.message, log)
    ELSE /\ pc' = "awaitBuild1"
         /\ report' = report
         /\ events' = Append(log, "build")

\* lines 954-956, 932: with the spender known, start doApprove (its first allowance
\* read) unless the source token is native
Recover(sp, res, log) ==
    IF ~isNativeToken(srcToken) /\ sp # Nil
    THEN /\ pc' = "awaitAllowance"
         /\ report' = report
         /\ events' = Append(log, "readAllowance")
    ELSE SubmitOrReport(res, log)

\* line 949: !first.ok || containsAllowanceError(first.json, first.raw)
NeedsRecovery(res) ==
    ~res.ok \/ containsAllowanceError(res.json, res.raw)

Sufficient_strict(a, need) == a > need

\* lines 933, 940: allowance >= BigInt(needUnits)
Sufficient(a, need) == a >= need

AfterDoApprove_no_rebuild(ok, log) ==
    IF ~ok THEN Alert("pending", log)
    ELSE /\ pc' = "awaitSwapTx"
         /\ report' = report
         /\ events' = Append(log, "swapTx")

AfterDoApprove_always_rebuild(ok, log) ==
    /\ pc' = "awaitBuild2"
    /\ report' = report
    /\ events' = Append(log, "build")

\* lines 956-962: const ok = await doApprove(..); if (!ok) return alert(..); first = await build()
AfterDoApprove(ok, log) ==
    IF ~ok THEN Alert("pending", log)
    ELSE /\ pc' = "awaitBuild2"
         /\ report' = report
         /\ events' = Append(log, "build")

(***************************************************************************)
(* Actions: one per await of onSwap, doApprove and approveUnlimited.       *)
(***************************************************************************)
\* lines 852-859: the click, the guards, the call of ensureChain
OnSwap ==
    /\ pc = "idle"
    /\ IF account = Nil THEN Alert("connectWallet", events)
       ELSE IF srcToken = Nil THEN Alert("pickTokens", events)
       ELSE IF ~hasWallet THEN Alert("noWallet", events)
       ELSE /\ pc' = "awaitChain"
            /\ report' = report
            /\ events' = Append(events, "ensureChain")
    /\ UNCHANGED <<outside, inputs, walletChainId, chain, locals, observed>>

\* lines 858-862, 946: ensureChain resolves or throws; then the first build() is issued
ChainEnsured ==
    /\ pc = "awaitChain"
    /\ \E o \in ensureChain(walletChainId, DefaultChainId) :
         /\ walletChainId' = o.chain
         /\ AfterEnsureChain(o, events \o o.log)
    /\ UNCHANGED <<outside, inputs, chain, locals, observed>>

\* lines 946-956: the first build() resolves (or fetch rejects); classify the result
FirstBuilt(reply) ==
    LET res == build(reply)
        fromError == Or(extractSpender(res.json), extractSpender(JsString(res.raw)))
    IN  /\ first' = <<res>>
        /\ firstResult' = <<res>>
        /\ IF ~NeedsRecovery(res)
           THEN /\ SubmitOrReport(res, events)
                /\ UNCHANGED <<spenderFromError, spenderToUse>>
           ELSE /\ spenderFromError' = fromError
                /\ IF spender # Nil /\ isAddress(spender)
                   THEN /\ spenderToUse' = Or(fromError, spender)
                        /\ Recover(Or(fromError, spender), res, events)
                   ELSE /\ pc' = "awaitSpender"
                        /\ report' = report
                        /\ events' = Append(events, "getSpender")
                        /\ UNCHANGED spenderToUse
        /\ UNCHANGED <<outside, inputs, walletChainId, chain, elapsed, polls, approved, preRead>>

BuildFirst ==
    /\ pc = "awaitBuild1"
    /\ \/ \E reply \in Replies : FirstBuilt(reply)
       \/ /\ Throw(events)
          /\ UNCHANGED <<outside, inputs, walletChainId, chain, locals, observed>>

KeepsPageState_caches_spender(sp) ==
    /\ spender' = sp
    /\ UNCHANGED <<account, srcToken, needUnits, hasWallet>>

\* lines 951-952: the spender fetched stays in the locals fallbackSpender and
\* spenderToUse; onSwap calls no state setter
KeepsPageState(sp) == UNCHANGED inputs

\* lines 155-162, 951-956: getSpender resolves with the fetched address, or with the
\* chain's default when the answer is no address
SpenderFetched ==
    /\ pc = "awaitSpender"
    /\ \E fetched \in FetchedSpenders :
         LET fallbackSpender == IF fetched # Nil /\ isAddress(fetched) THEN fetched
                                ELSE ONE_INCH_V6_SPENDER
             use == Or(spenderFromError, fallbackSpender)
         IN  /\ spenderToUse' = use
             /\ Recover(use, first[1], events)
             /\ KeepsPageState(use)
    /\ UNCHANGED <<outside, walletChainId, chain, first, spenderFromError, elapsed, polls,
                   observed>>

\* lines 932-934, 248-250: doApprove's first readAllowance resolves
AllowanceRead ==
    /\ pc = "awaitAllowance"
    /\ \/ /\ preRead' = allowance[spenderToUse]
          /\ IF Sufficient(allowance[spenderToUse], needUnits)
             THEN /\ approved' = "true"
                  /\ AfterDoApprove(TRUE, events)
             ELSE /\ approved' = approved
                  /\ pc' = "awaitApproveChain"
                  /\ report' = report
                  /\ events' = Append(events, "ensureChain")
          /\ UNCHANGED <<outside, inputs, walletChainId, chain, locals, firstResult>>
       \/ /\ Throw(events)
          /\ UNCHANGED <<outside, inputs, walletChainId, chain, locals, observed>>

\* lines 250-265: approveUnlimited's ensureChain resolves; the approve proxy is asked
ApproveChainEnsured ==
    /\ pc = "awaitApproveChain"
    /\ \E o \in ensureChain(walletChainId, DefaultChainId) :
         /\ walletChainId' = o.chain
         /\ IF o.result = "throw" THEN Throw(events \o o.log)
            ELSE /\ pc' = "awaitApproveFetch"
                 /\ report' = report
                 /\ events' = Append(events \o o.log, "approveFetch")
    /\ UNCHANGED <<outside, inputs, chain, locals, observed>>

\* lines 265-285: the approve proxy answers.  With `to` and `data` its transaction is
\* handed to the wallet; with anything else (or a rejected fetch) the raw approve is
ApproveFetched ==
    /\ pc = "awaitApproveFetch"
    /\ \E usable \in BOOLEAN :
         pc' = IF usable THEN "awaitApproveProxyTx" ELSE "awaitApproveRawTx"
    /\ events' = Append(events, "approveTx")
    /\ UNCHANGED <<outside, inputs, walletChainId, chain, locals, observed, report>>

\* doApprove lines 935-938: a transaction hash came back, the poll loop starts
StartPolling ==
    /\ pc' = "awaitPoll"
    /\ elapsed' = 0
    /\ polls' = 0
    /\ report' = report

\* lines 268-285: the wallet answers the proxy-built approval.  A rejection is
\* swallowed by the enclosing catch {} and the raw approve is handed to the wallet
ApproveProxyTxAnswered ==
    /\ pc = "awaitApproveProxyTx"
    /\ \/ \E p \in ProxyApprovals(ApproveAmount("proxy")) :
            /\ pending' = pending \cup {p}
            /\ StartPolling
            /\ events' = Append(events, "signed")
       \/ /\ pc' = "awaitApproveRawTx"
          /\ events' = Append(Append(events, "rejected"), "approveTx")
          /\ UNCHANGED <<pending, elapsed, polls, report>>
    /\ UNCHANGED <<outside, inputs, walletChainId, allowance, first, spenderFromError,
                   spenderToUse, observed>>

\* lines 277-287: the wallet answers the raw approve(spender, max)
ApproveRawTxAnswered ==
    /\ pc = "awaitApproveRawTx"
    /\ \/ /\ pending' = pending \cup {RawApproval(spenderToUse)}
          /\ StartPolling
          /\ events' = Append(events, "signed")
       \/ /\ Throw(Append(events, "rejected"))
          /\ UNCHANGED <<pending, elapsed, polls>>
    /\ UNCHANGED <<outside, inputs, walletChainId, allowance, first, spenderFromError,
                   spenderToUse, observed>>

\* the log with one "pollRead" for a run of polling reads
LogPoll(log) == IF log[Len(log)] = "pollRead" THEN log ELSE Append(log, "pollRead")

WindowOpen_inclusive(now) == now <= PollWindow

\* line 936: while (Date.now() - start < 30000)
WindowOpen(now) == now < PollWindow

\* lines 937-942: one round of the poll loop: the timer, the read, the loop test.
\* The read throws when the RPC request fails.
Polled ==
    /\ pc = "awaitPoll"
    /\ \E late \in 0..MaxLatency :
         LET now == elapsed + PollInterval + late
         IN  \/ /\ Sufficient(allowance[spenderToUse], needUnits)
                /\ approved' = "true"
                /\ elapsed' = 0
                /\ polls' = 0
                /\ AfterDoApprove(TRUE, LogPoll(events))
             \/ /\ ~Sufficient(allowance[spenderToUse], needUnits)
                /\ IF WindowOpen(now)
                   THEN /\ elapsed' = now
                        /\ polls' = polls + 1
                        /\ approved' = approved
                        /\ pc' = "awaitPoll"
                        /\ report' = report
                        /\ events' = LogPoll(events)
                   ELSE /\ elapsed' = now
                        /\ polls' = 0
                        /\ approved' = "false"
                        /\ AfterDoApprove(FALSE, LogPoll(events))
             \/ /\ Throw(Append(LogPoll(events), "readFailed"))
                /\ elapsed' = 0
                /\ polls' = 0
                /\ approved' = approved
    /\ UNCHANGED <<outside, inputs, walletChainId, chain, first, spenderFromError, spenderToUse,
                   preRead, firstResult>>

\* lines 962-998: the retried build() resolves
BuildRetry ==
    /\ pc = "awaitBuild2"
    /\ \/ \E reply \in Replies :
            /\ first' = <<build(reply)>>
            /\ SubmitOrReport(build(reply), events)
       \/ /\ Throw(events)
          /\ first' = first
    /\ UNCHANGED <<outside, inputs, walletChainId, chain, spenderFromError, spenderToUse, elapsed,
                   polls, observed>>

AfterSwapRejected_retry(log) ==
    IF Len(log) < 12
    THEN /\ pc' = "awaitSwapTx"
         /\ report' = report
         /\ events' = Append(log, "swapTx")
    ELSE Alert("walletError", log)

\* lines 1000-1002: catch (e) { alert(e?.message || JSON.stringify(e)) }, the last
\* statement of onSwap
AfterSwapRejected(log) == Alert("walletError", log)

\* lines 994-1002: the wallet answers the swap's eth_sendTransaction
SwapTxAnswered ==
    /\ pc = "awaitSwapTx"
    /\ \/ Alert("submitted", Append(events, "signed"))
       \/ AfterSwapRejected(Append(events, "rejected"))
    /\ UNCHANGED <<outside, inputs, walletChainId, chain, locals, observed>>

\* the chain mines a pending approval: approve(spender, value) sets the allowance
ApprovalMined ==
    /\ pc \notin {"idle", "done"}
    /\ \E p \in pending :
         /\ pending' = pending \ {p}
         /\ allowance' = [allowance EXCEPT ![p.spender] = p.value]
    /\ UNCHANGED <<outside, inputs, walletChainId, pc, locals, observed, report, events>>

\* lines 1233-1239, 852-859: a click on Swap while the invocation followed is in
\* flight.  The button is disabled by !srcToken || !dstToken || quoting only, and
\* onSwap's guards test the account, the tokens and the wallet: another invocation
\* starts.
OnSwapAgain ==
    /\ pc \notin {"idle", "done"}
    /\ others < MaxOthers
    /\ srcToken # Nil
    /\ account # Nil
    /\ hasWallet
    /\ others' = others + 1
    /\ UNCHANGED <<workflow, aside, txCall, quoteEffect, unitsCall, hexCalls, proxyCall>>

\* lines 852-1003: an invocation started that way returns
OtherReturns ==
    /\ others > 0
    /\ others' = others - 1
    /\ UNCHANGED <<workflow, aside, txCall, quoteEffect, unitsCall, hexCalls, proxyCall>>

Next ==
    \/ OnSwap
    \/ ChainEnsured
    \/ BuildFirst
    \/ SpenderFetched
    \/ AllowanceRead
    \/ ApproveChainEnsured
    \/ ApproveFetched
    \/ ApproveProxyTxAnswered
    \/ ApproveRawTxAnswered
    \/ Polled
    \/ BuildRetry
    \/ SwapTxAnswered
    \/ ApprovalMined
    \/ OnSwapAgain
    \/ OtherReturns

Spec == Init /\ [][Next]_vars

\* lines 566-568, 575-585, 1067: while onSwap is suspended the wallet's active chain
\* changes: the user switches the network in the wallet, or selects another chain
\* in the page and the chain-switch effect's ensureChain switches the wallet; onSwap
\* keeps the chainId of the render it was started from
WalletChainChanged ==
    /\ pc \notin {"idle", "done"}
    /\ walletChainId' \in {DefaultChainId, OtherChainId} \ {walletChainId}
    /\ UNCHANGED <<outside, inputs, chain, pc, locals, observed, report, events>>

NextChainRace ==
    \/ OnSwap
    \/ ChainEnsured
    \/ BuildFirst
    \/ SpenderFetched
    \/ AllowanceRead
    \/ ApproveChainEnsured
    \/ ApproveFetched
    \/ ApproveProxyTxAnswered
    \/ ApproveRawTxAnswered
    \/ Polled
    \/ BuildRetry
    \/ SwapTxAnswered
    \/ ApprovalMined
    \/ OnSwapAgain
    \/ OtherReturns
    \/ WalletChainChanged

\* the invocation of onSwap with the wallet's chain changing under it
SpecChainRace == Init /\ [][NextChainRace]_vars

\* The wallet, the RPC node, the timers and the spender and approve proxies answer
\* every request made to them.  No condition is put on the answers to build()
\* (lines 912-929: a fetch with no timeout and no abort signal), on the mining of
\* approvals, or on the user's clicks.
Answered ==
    /\ WF_vars(ChainEnsured)
    /\ WF_vars(SpenderFetched)
    /\ WF_vars(AllowanceRead)
    /\ WF_vars(ApproveChainEnsured)
    /\ WF_vars(ApproveFetched)
    /\ WF_vars(ApproveProxyTxAnswered)
    /\ WF_vars(ApproveRawTxAnswered)
    /\ WF_vars(Polled)
    /\ WF_vars(SwapTxAnswered)

SpecAnswered == Spec /\ Answered

(***************************************************************************)
(* Vocabulary of the properties.                                           *)
(***************************************************************************)
\* the source token is the native sentinel, in either spelling
SourceIsNative == srcToken \in {NATIVE, NATIVE_LC}
SourceIsErc20 == srcToken = TOKEN_X

AllowancePhrases == {PHRASE, PHRASE_UC, PHRASE_LC}

\* the result's structured error field or its raw body holds the phrase, in any case
MentionsAllowance(res) ==
    \/ \E i \in 1..Len(res.json.error) : res.json.error[i] \in AllowancePhrases
    \/ \E i \in 1..Len(res.raw) : res.raw[i] \in AllowancePhrases

\* requests of kind e that the wallet signed
Signed(e) ==
    Cardinality({i \in 1..(Len(events) - 1) : events[i] = e /\ events[i + 1] = "signed"})

\* the log without the requests the wallet rejected
Effective ==
    SelectSeq([i \in 1..Len(events) |->
                  IF i < Len(events) /\ events[i + 1] = "rejected" THEN "rejected"
                  ELSE events[i]],
              LAMBDA e : e \in {"build", "readAllowance", "approveTx", "pollRead", "swapTx"})

(***************************************************************************)
(* C1.  For a non-native source token the on-chain allowance of the        *)
(* resolved spender is at least the required amount whenever the swap      *)
(* transaction is handed to the wallet.  Stated leniently: when the        *)
(* invocation resolved no spender at all, any spender's allowance counts.  *)
(***************************************************************************)
C1_AllowanceCoversSwapAtSubmit ==
    (pc = "awaitSwapTx" /\ SourceIsErc20) =>
        IF spenderToUse # Nil
        THEN allowance[spenderToUse] >= needUnits
        ELSE \E s \in Spenders : allowance[s] >= needUnits

(***************************************************************************)
(* C2.  One call of doApprove hands at most one approval transaction       *)
(* request to the wallet; a rejected approval is not followed by a second  *)
(* request.                                                                *)
(***************************************************************************)
C2_AtMostOneApprovalRequest ==
    /\ Count("approveTx") <= 1
    /\ \A i \in 1..(Len(events) - 1) :
         (events[i] = "approveTx" /\ events[i + 1] = "rejected") =>
            (i + 2 <= Len(events) => events[i + 2] = "throw")

(***************************************************************************)
(* C3.  If the allowance doApprove reads first already covers the required *)
(* amount, doApprove returns true with no approval request (to the proxy   *)
(* or to the wallet) and no polling.                                       *)
(***************************************************************************)
C3_SufficientAllowanceSkipsApproval ==
    (preRead >= 0 /\ preRead >= needUnits) =>
        /\ approved = "true"
        /\ Count("approveFetch") = 0
        /\ Count("approveTx") = 0
        /\ Count("pollRead") = 0
        /\ pending = {}

C3_Witness ==
    /\ needUnits > 0
    /\ preRead = needUnits
    /\ approved = "true"
    /\ pc = "done"

(***************************************************************************)
(* C4.  One invocation issues build() at most twice, and the second time   *)
(* only after doApprove returned true.                                     *)
(***************************************************************************)
C4_AtMostTwoBuilds ==
    /\ Count("build") <= 2
    /\ Count("build") = 2 => approved = "true"

C4_Witness ==
    /\ Count("build") = 2
    /\ pc = "done"
    /\ report = "buildFailed"

(***************************************************************************)
(* C5.  A first build that failed without mentioning an allowance          *)
(* shortfall is reported at once: no allowance read, no approval request,  *)
(* no second build.                                                        *)
(***************************************************************************)
C5_UnrelatedFailureIsReportedAtOnce ==
    (firstResult # <<>> /\ ~firstResult[1].ok /\ ~MentionsAllowance(firstResult[1])) =>
        /\ Count("readAllowance") = 0
        /\ Count("approveTx") = 0
        /\ Count("build") = 1

(***************************************************************************)
(* C6.  For a non-native source token, a first build result that mentions  *)
(* the allowance shortfall (in any letter case, with any HTTP status)      *)
(* leads into approval recovery: the spender is being fetched or the       *)
(* allowance read has been issued, and no swap request precedes that read. *)
(***************************************************************************)
C6_AllowanceErrorEntersRecovery ==
    (firstResult # <<>> /\ SourceIsErc20 /\ MentionsAllowance(firstResult[1])) =>
        /\ pc = "awaitSpender" \/ Count("readAllowance") >= 1
        /\ Count("swapTx") > 0 => IndexOf("readAllowance") < IndexOf("swapTx")

C6_Witness ==
    /\ SourceIsErc20
    /\ firstResult # <<>>
    /\ firstResult[1].ok
    /\ PHRASE_UC \in {firstResult[1].json.error[i] : i \in 1..Len(firstResult[1].json.error)}
    /\ Count("readAllowance") = 1
    /\ Count("swapTx") = 1

(***************************************************************************)
(* C7.  The spender of approval recovery is, in this priority: an explicit *)
(* spender/allowanceTarget member that is an address; else the first       *)
(* address inside the error text or the raw body; else the cached spender; *)
(* else the fetched or default spender.                                    *)
(***************************************************************************)
C7_SpenderPriority ==
    (firstResult # <<>> /\ spenderToUse # Nil) =>
        LET j == firstResult[1].json
            explicit == {j.data_spender, j.data_allowanceTarget, j.spender,
                         j.allowanceTarget} \cap Addresses
            inText == {FirstAddress(j.error), FirstAddress(firstResult[1].raw)} \ {Nil}
        IN  IF explicit # {} THEN spenderToUse \in explicit
            ELSE IF inText # {} THEN spenderToUse \in inText
            ELSE IF spender # Nil THEN spenderToUse = spender
            ELSE spenderToUse \in (FetchedSpenders \cap Addresses) \cup {ONE_INCH_V6_SPENDER}

(***************************************************************************)
(* C8.  With the native sentinel as source token, in either spelling, an   *)
(* invocation reads no allowance, requests no approval, and issues build() *)
(* exactly once whatever that build returns.                               *)
(***************************************************************************)
C8_NativeSkipsApproval ==
    SourceIsNative =>
        /\ Count("readAllowance") = 0
        /\ Count("pollRead") = 0
        /\ Count("approveFetch") = 0
        /\ Count("approveTx") = 0
        /\ Count("build") <= 1
        /\ firstResult # <<>> => (Count("build") = 1 /\ pc \in {"awaitSpender", "awaitSwapTx", "done"})

C8_Witness ==
    /\ srcToken = NATIVE_LC
    /\ pc = "done"
    /\ firstResult # <<>>
    /\ ~firstResult[1].ok
    /\ MentionsAllowance(firstResult[1])
    /\ Count("build") = 1

(***************************************************************************)
(* C9.  Scenario: ERC-20 source, zero allowance, a positive amount; the    *)
(* first build fails mentioning the allowance shortfall and naming a       *)
(* spender; the approval is mined in time, so doApprove returns true.      *)
(* Then the invocation has performed, in this order and nothing else:      *)
(* build, allowance read, one signed approval for the maximum value, the   *)
(* polling, one more build; and one swap request if and only if that       *)
(* second build returned a valid transaction.                              *)
(***************************************************************************)
C9_Scenario ==
    /\ pc = "done"
    /\ SourceIsErc20
    /\ needUnits > 0
    /\ firstResult # <<>>
    /\ ~firstResult[1].ok
    /\ MentionsAllowance(firstResult[1])
    /\ FirstAddress(firstResult[1].raw) # Nil
    /\ preRead = 0
    /\ approved = "true"

C10_TimeoutReportsPending ==
    (approved = "false" /\ Signed("approveTx") >= 1) =>
        /\ pc = "done"
        /\ report = "pending"
        /\ Count("build") = 1
        /\ Count("swapTx") = 0

C10_Witness ==
    /\ approved = "false"
    /\ Signed("approveTx") = 1
    /\ pending # {}
    /\ allowance[spenderToUse] < needUnits
    /\ report = "pending"

(***************************************************************************)
(* Strings as sequences of characters, and the conversions between digit   *)
(* strings and integers.                                                   *)
(***************************************************************************)
DecimalDigits == {"0", "1", "2", "3", "4", "5", "6", "7", "8", "9"}

\* the characters of 0-9a-f in order: the digit of value v is HexChars[v + 1]
HexChars == <<"0", "1", "2", "3", "4", "5", "6", "7", "8", "9", "a", "b", "c", "d", "e", "f">>

DigitValue(c) == CHOOSE v \in 0..9 : HexChars[v + 1] = c

\* BigInt(s) throws a SyntaxError: s is neither empty nor decimal digits with an
\* optional leading "-"
BigIntThrows(s) ==
    /\ s # <<>>
    /\ LET body == IF s[1] = "-" THEN Tail(s) ELSE s
       IN  body = <<>> \/ \E k \in 1..Len(body) : body[k] \notin DecimalDigits

\* BigInt(s) of a string it accepts
RECURSIVE BigInt(_)
BigInt(s) ==
    IF s = <<>> THEN 0
    ELSE IF s[1] = "-" THEN 0 - BigInt(Tail(s))
    ELSE BigInt(SubSeq(s, 1, Len(s) - 1)) * 10 + DigitValue(s[Len(s)])

\* what a call returns in the model when it throws
SyntaxError == <<"SyntaxError">>

\* n.toString(radix) of an integer
RECURSIVE toString(_, _)
toString(n, radix) ==
    IF n < 0 THEN <<"-">> \o toString(0 - n, radix)
    ELSE IF n < radix THEN <<HexChars[n + 1]>>
    ELSE toString(n \div radix, radix) \o <<HexChars[(n % radix) + 1]>>

\* s.split("."): the pieces between the dots
RECURSIVE Split(_)
Split(s) ==
    IF \A k \in 1..Len(s) : s[k] # "." THEN <<s>>
    ELSE LET dot == CHOOSE k \in 1..Len(s) : s[k] = "." /\ \A m \in 1..(k - 1) : s[m] # "."
         IN  <<SubSeq(s, 1, dot - 1)>> \o Split(SubSeq(s, dot + 1, Len(s)))

\* s.replace(/\D/g, "")
OnlyDigits(s) == SelectSeq(s, LAMBDA c : c \in DecimalDigits)

\* c.repeat(n)
Repeat(c, n) == [k \in 1..n |-> c]

\* s.slice(0, n)
Slice(s, n) == SubSeq(s, 1, IF n < Len(s) THEN n ELSE Len(s))

(***************************************************************************)
(* toUnits(amount, decimals), page.tsx lines 189-196 (and 1982-1988).      *)
(***************************************************************************)
toUnits_no_padding(amt, dec) ==
    LET text == IF amt = <<>> THEN <<"0">> ELSE amt
        parts == Split(text)
        i == parts[1]
        f == IF Len(parts) >= 2 THEN parts[2] ELSE <<>>
        cleanI == IF OnlyDigits(i) = <<>> THEN <<"0">> ELSE OnlyDigits(i)
        cleanF == Slice(OnlyDigits(f), dec)
    IN  toString(BigInt(cleanI) * (10 ^ dec) + BigInt(IF cleanF = <<>> THEN <<"0">> ELSE cleanF), 10)

toUnits_no_cleaning(amt, dec) ==
    LET text == IF amt = <<>> THEN <<"0">> ELSE amt
        parts == Split(text)
        i == parts[1]
        f == IF Len(parts) >= 2 THEN parts[2] ELSE <<>>
        cleanI == IF i = <<>> THEN <<"0">> ELSE i
        cleanF == Slice(f \o Repeat("0", dec), dec)
        cleanF0 == IF cleanF = <<>> THEN <<"0">> ELSE cleanF
    IN  IF BigIntThrows(cleanI) \/ BigIntThrows(cleanF0) THEN SyntaxError
        ELSE toString(BigInt(cleanI) * (10 ^ dec) + BigInt(cleanF0), 10)

toUnits(amt, dec) ==
    LET text == IF amt = <<>> THEN <<"0">> ELSE amt
        parts == Split(text)
        i == parts[1]
        f == IF Len(parts) >= 2 THEN parts[2] ELSE <<>>
        cleanI == IF OnlyDigits(i) = <<>> THEN <<"0">> ELSE OnlyDigits(i)
        cleanF == Slice(OnlyDigits(f) \o Repeat("0", dec), dec)
        cleanF0 == IF cleanF = <<>> THEN <<"0">> ELSE cleanF
    IN  IF BigIntThrows(cleanI) \/ BigIntThrows(cleanF0) THEN SyntaxError
        ELSE toString(BigInt(cleanI) * (10 ^ dec) + BigInt(cleanF0), 10)

\* the page with no invocation of onSwap
NoInvocation ==
    /\ account = Nil
    /\ srcToken = Nil
    /\ needUnits = 0
    /\ spender = Nil
    /\ hasWallet = FALSE
    /\ walletChainId = DefaultChainId
    /\ allowance = [s \in Spenders |-> 0]
    /\ pending = {}
    /\ pc = "idle"
    /\ first = <<>>
    /\ spenderFromError = Nil
    /\ spenderToUse = Nil
    /\ elapsed = 0
    /\ polls = 0
    /\ approved = "none"
    /\ preRead = -1
    /\ firstResult = <<>>
    /\ report = "none"
    /\ events = <<>>
    /\ others = 0

\* the characters an amount text is made of
AmountChars == {"0", "1", "9", ".", "-"}

AmountTexts == UNION {[1..n -> AmountChars] : n \in 0..MaxAmountLen}

InitUnits ==
    /\ NoInvocation
    /\ NoTxCall
    /\ NoQuoteEffect
    /\ NoAside
    /\ NoHexCalls
    /\ NoProxyCall
    /\ amount \in AmountTexts
    /\ decimals \in 0..MaxDecimals
    /\ units = <<>>

CallToUnits ==
    /\ units = <<>>
    /\ units' = toUnits(amount, decimals)
    /\ UNCHANGED <<workflow, aside, txCall, quoteEffect, others, amount, decimals, hexCalls, proxyCall>>

NextUnits == CallToUnits

SpecUnits == InitUnits /\ [][NextUnits]_vars

(***************************************************************************)
(* toHex(val), page.tsx lines 864-890 (and 1779-1807).                     *)
(*                                                                         *)
(* A JavaScript value is a record with its kind.  A number is kept in      *)
(* halves, so that 1.5 is a number; a wrapper object is kept as the member *)
(* toHex finds first on it and the text that member yields.                *)
(***************************************************************************)
Undefined == [kind |-> "undefined"]
Str(cs) == [kind |-> "string", chars |-> cs]
Num(h) == [kind |-> "number", halves |-> h]
Big(n) == [kind |-> "bigint", n |-> n]
Obj(m, cs) == [kind |-> "object", member |-> m, chars |-> cs]
Bool(b) == [kind |-> "boolean", b |-> b]

HexDigitChars == {HexChars[k] : k \in 1..16} \cup {"A", "B", "C", "D", "E", "F"}

\* /^0x/i.test(s)
StartsWith0x(cs) == Len(cs) >= 2 /\ cs[1] = "0" /\ cs[2] \in {"x", "X"}

\* /^0x[0-9a-f]+$/i.test(s)
IsHex(cs) == StartsWith0x(cs) /\ Len(cs) >= 3 /\ \A k \in 3..Len(cs) : cs[k] \in HexDigitChars

\* /^\d+$/.test(s)
IsDecimal(cs) == Len(cs) >= 1 /\ \A k \in 1..Len(cs) : cs[k] \in DecimalDigits

\* Number.isFinite(Number(s)) for a text of digits, letters, "-" and ".": the empty
\* text (0), or an optional "-" and digits with at most one "."
IsNumeric(cs) ==
    \/ cs = <<>>
    \/ LET body == IF cs[1] = "-" THEN Tail(cs) ELSE cs
       IN  /\ \A k \in 1..Len(body) : body[k] \in DecimalDigits \cup {"."}
           /\ Cardinality({k \in 1..Len(body) : body[k] = "."}) <= 1
           /\ \E k \in 1..Len(body) : body[k] \in DecimalDigits

\* Math.trunc(Math.max(0, Number(s))) for such a text
TruncMax0(cs) ==
    IF cs = <<>> \/ cs[1] = "-" THEN 0 ELSE BigInt(Split(cs)[1])

\* "0x" + n.toString(16)
Hex0x(n) == <<"0", "x">> \o toString(n, 16)

toHex(v) ==
    IF v.kind = "undefined" THEN Undefined
    ELSE IF v.kind = "object"
    THEN IF v.member \in {"hex", "_hex", "toHexString"} THEN Str(v.chars)
         ELSE IF v.member = "toString" /\ IsHex(v.chars) THEN Str(v.chars)
         ELSE IF v.member = "toString" /\ IsDecimal(v.chars) THEN Str(Hex0x(BigInt(v.chars)))
         ELSE Undefined
    ELSE IF v.kind = "string"
    THEN IF StartsWith0x(v.chars) THEN v
         ELSE IF IsDecimal(v.chars) THEN Str(Hex0x(BigInt(v.chars)))
         ELSE IF IsNumeric(v.chars) THEN Str(Hex0x(TruncMax0(v.chars)))
         ELSE Undefined
    ELSE IF v.kind = "number"
    THEN Str(Hex0x(IF v.halves < 0 THEN 0 ELSE v.halves \div 2))
    ELSE IF v.kind = "bigint" THEN Str(Hex0x(v.n))
    ELSE Undefined

\* the characters of the texts passed to toHex
HexTextChars == {"0", "1", "f", "x", "X", "-", "."}

HexTexts == UNION {[1..n -> HexTextChars] : n \in 0..MaxTextLen}

\* the values passed to toHex
HexInputs ==
    {Undefined, Bool(TRUE)}
    \cup {Str(cs) : cs \in HexTexts}
    \cup {Num(h) : h \in (0 - 2 * MaxNumber)..(2 * MaxNumber)}
    \cup {Big(n) : n \in (0 - MaxNumber)..MaxNumber}
    \cup {Obj(m, cs) : m \in {"hex", "_hex", "toHexString", "toString"}, cs \in HexTexts}

InitHex ==
    /\ NoInvocation
    /\ NoTxCall
    /\ NoQuoteEffect
    /\ NoAside
    /\ NoUnitsCall
    /\ NoProxyCall
    /\ val \in HexInputs
    /\ hex = NotCalled
    /\ hexAgain = NotCalled

\* toHex(val)
CallToHex ==
    /\ hex = NotCalled
    /\ hex' = toHex(val)
    /\ UNCHANGED <<workflow, aside, txCall, quoteEffect, others, unitsCall, val, hexAgain, proxyCall>>

\* toHex(toHex(val))
CallToHexAgain ==
    /\ hex # NotCalled
    /\ hexAgain = NotCalled
    /\ hexAgain' = toHex(hex)
    /\ UNCHANGED <<workflow, aside, txCall, quoteEffect, others, unitsCall, val, hex, proxyCall>>

NextHex == CallToHex \/ CallToHexAgain

SpecHex == InitHex /\ [][NextHex]_vars

(***************************************************************************)
(* The proxy routes in front of the 1inch API:                             *)
(*   "quote"        api/oneinch/quote/route.ts, POST (lines 11-56)         *)
(*   "swap"         api/erc20meta/route.ts, POST /api/oneinch/swap         *)
(*                  (lines 163-209)                                        *)
(*   "swapPayload"  api/oneinch/quote/swap/route.ts, POST (lines 4-36)     *)
(*   "erc20meta"    api/erc20meta/route.ts, POST (lines 93-153), in front  *)
(*                  of the chain's JSON-RPC endpoint                       *)
(* Of a request the model keeps whether its body is JSON with the fields   *)
(* the handler needs and whether the API key is configured; of the         *)
(* upstream answer, whether fetch rejected, the status and the kind of     *)
(* body.                                                                   *)
(***************************************************************************)
Routes == {"quote", "swap", "swapPayload", "erc20meta"}

\* request bodies: JSON with every field the route needs and well formed; JSON with a
\* required field missing (for erc20meta: an unsupported chain or a malformed
\* address); not JSON
RequestBodies == {"complete", "incomplete", "notJson"}

\* NEXT_PUBLIC_FEE_BPS
FeeBpsValues == {0, 1, 3, 4, 25, 300, 301, MaxFeeBps}

\* the request's slippageBps, -1 when the request has none
SlippageBpsValues == {-1, 1, 100}

Requests ==
    [body : RequestBodies, key : BOOLEAN, feeBps : FeeBpsValues,
     slippageBps : SlippageBpsValues]

\* upstream bodies: a JSON result, a JSON document with error/description, plain text
UpstreamBodies == {"json", "jsonError", "text"}

Upstreams ==
    {[rejects |-> TRUE, status |-> 0, body |-> "none"]}
    \cup {[rejects |-> FALSE, status |-> st, body |-> b] : st \in {200, 400, 500},
                                                         b \in UpstreamBodies}

\* r.ok
ResponseOk(up) == up.status \in 200..299

\* a response: its status, the `ok` member of its body ("absent" when the body has
\* none), the error description it carries, whether it carries the raw upstream text
Reply(st, ok, err, raw) ==
    [kind |-> "response", thrown |-> FALSE, status |-> st, ok |-> ok, error |-> err,
     details |-> raw]

\* the handler's promise rejects
Thrown ==
    [kind |-> "response", thrown |-> TRUE, status |-> 0, ok |-> "absent", error |-> Nil,
     details |-> FALSE]

POST_quote(req, up) ==
    IF req.body = "notJson" THEN Reply(500, "false", "exception", FALSE)
    ELSE IF req.body = "incomplete" THEN Reply(400, "false", "fieldsRequired", FALSE)
    ELSE IF ~req.key THEN Reply(500, "false", "missingKey", FALSE)
    ELSE IF up.rejects THEN Reply(500, "false", "exception", FALSE)
    ELSE IF ~ResponseOk(up) THEN Reply(up.status, "false", "quoteFailed", TRUE)
    ELSE Reply(200, "true", Nil, FALSE)

POST_swap(req, up) ==
    IF ~req.key THEN Reply(500, "false", "missingKey", FALSE)
    ELSE IF req.body = "notJson" THEN Reply(500, "false", "exception", FALSE)
    ELSE IF up.rejects THEN Reply(500, "false", "exception", FALSE)
    ELSE IF ~ResponseOk(up)
    THEN Reply(up.status, "false",
               IF up.body = "jsonError" THEN "upstreamDescription" ELSE "swapFailedStatus",
               FALSE)
    ELSE Reply(200, "true", Nil, FALSE)

POST_swapPayload(req, up) ==
    IF req.body # "complete" THEN Reply(400, "absent", "fieldsRequired", FALSE)
    ELSE IF up.rejects THEN Thrown
    ELSE Reply(up.status, "absent",
               IF up.body = "jsonError" THEN "upstreamDescription" ELSE Nil, TRUE)

\* lines 93-153: the metadata endpoint; every RPC call is inside its own try/catch
POST_erc20meta(req, up) ==
    IF req.body = "notJson" THEN Reply(400, "false", "exception", FALSE)
    ELSE IF req.body = "incomplete" THEN Reply(400, "false", "badChainOrAddress", FALSE)
    ELSE IF up.rejects \/ ~ResponseOk(up) \/ up.body # "json"
    THEN Reply(400, "false", "notErc20", FALSE)
    ELSE Reply(200, "true", Nil, FALSE)

\* a request sent upstream: the fee and the slippage it carries, in hundredths of a
\* percent; fee 0 when no fee is attached, "none" where the route sends no such member,
\* "payload" where the route passes on what its caller put in the payload
Sent(fee, slippage) == [kind |-> "sent", fee |-> fee, slippage |-> slippage]

\* quote/route.ts lines 15-34
Forward_quote(req) ==
    IF req.body = "complete" /\ req.key THEN Sent("none", "none") ELSE NotCalled

\* erc20meta/route.ts lines 164-194: feePercent = feeBps / 100, capped at 3;
\* slippage = slippageBps / 100 with slippageBps = 50 by default
Forward_swap(req) ==
    IF req.key /\ req.body # "notJson"
    THEN Sent(IF req.feeBps > 300 THEN 300 ELSE req.feeBps,
              IF req.slippageBps = -1 THEN 50 ELSE req.slippageBps)
    ELSE NotCalled

\* quote/swap/route.ts lines 9-29: feePercent: feeBps
Forward_swapPayload(req) ==
    IF req.body = "complete" THEN Sent(req.feeBps * 100, "payload") ELSE NotCalled

\* erc20meta/route.ts lines 99-111
Forward_erc20meta(req) ==
    IF req.body = "complete" THEN Sent("none", "none") ELSE NotCalled

InitProxy ==
    /\ NoInvocation
    /\ NoTxCall
    /\ NoQuoteEffect
    /\ NoAside
    /\ NoUnitsCall
    /\ NoHexCalls
    /\ route \in Routes
    /\ request \in Requests
    /\ upstream \in Upstreams
    /\ response = NotCalled
    /\ forwarded = NotCalled

ServeQuote ==
    /\ route = "quote"
    /\ response = NotCalled
    /\ response' = POST_quote(request, upstream)
    /\ forwarded' = Forward_quote(request)
    /\ UNCHANGED <<workflow, aside, txCall, quoteEffect, others, unitsCall, hexCalls, route, request,
                   upstream>>

ServeSwap ==
    /\ route = "swap"
    /\ response = NotCalled
    /\ response' = POST_swap(request, upstream)
    /\ forwarded' = Forward_swap(request)
    /\ UNCHANGED <<workflow, aside, txCall, quoteEffect, others, unitsCall, hexCalls, route, request,
                   upstream>>

ServeSwapPayload ==
    /\ route = "swapPayload"
    /\ response = NotCalled
    /\ response' = POST_swapPayload(request, upstream)
    /\ forwarded' = Forward_swapPayload(request)
    /\ UNCHANGED <<workflow, aside, txCall, quoteEffect, others, unitsCall, hexCalls, route, request,
                   upstream>>

ServeErc20Meta ==
    /\ route = "erc20meta"
    /\ response = NotCalled
    /\ response' = POST_erc20meta(request, upstream)
    /\ forwarded' = Forward_erc20meta(request)
    /\ UNCHANGED <<workflow, aside, txCall, quoteEffect, others, unitsCall, hexCalls, route, request,
                   upstream>>

NextProxy == ServeQuote \/ ServeSwap \/ ServeSwapPayload \/ ServeErc20Meta

SpecProxy == InitProxy /\ [][NextProxy]_vars

(***************************************************************************)
(* The numeric fields of the swap transaction request, page.tsx lines      *)
(* 979-992 (and 1832-1845).                                                *)
(***************************************************************************)
TxFields == {"value", "gas", "gasPrice", "maxFeePerGas", "maxPriorityFeePerGas"}

\* a member that txParams does not have
Absent == [kind |-> "absent"]

\* what a payload field may hold: nothing, a hex text, a decimal text, a text that is
\* no number, a number, a wrapper with an empty hex text, a wrapper whose hex text
\* has no 0x prefix
TxInputs ==
    {Undefined, Str(<<"0", "x", "1", "f">>), Str(<<"1", "0">>), Str(<<"f">>), Num(2),
     Obj("hex", <<>>), Obj("hex", <<"1">>)}

\* if (gas): a non-empty string is truthy, undefined and "" are not
Truthy(v) == v.kind = "string" /\ v.chars # <<>>

\* lines 979-992: value: toHex(payload.value) ?? "0x0"; if (gas) txParams.gas = gas; ..
BuildTxParams(pl) ==
    [f \in TxFields |->
        IF f = "value"
        THEN IF toHex(pl[f]) = Undefined THEN Str(<<"0", "x", "0">>) ELSE toHex(pl[f])
        ELSE IF Truthy(toHex(pl[f])) THEN toHex(pl[f]) ELSE Absent]

InitTx ==
    /\ NoInvocation
    /\ NoQuoteEffect
    /\ NoAside
    /\ NoUnitsCall
    /\ NoHexCalls
    /\ NoProxyCall
    /\ payload \in [TxFields -> TxInputs]
    /\ txParams = NotCalled

MakeTxParams ==
    /\ txParams = NotCalled
    /\ txParams' = BuildTxParams(payload)
    /\ UNCHANGED <<workflow, aside, quoteEffect, others, unitsCall, hexCalls, proxyCall, payload>>

NextTx == MakeTxParams

SpecTx == InitTx /\ [][NextTx]_vars

(***************************************************************************)
(* The quote effect of Page (lines 636-755).  The inputs of a quote (edit  *)
(* side, chain, token pair, amounts) are identified by the number of times *)
(* they have changed; the callback of a debounce timer and the request it  *)
(* sends close over the inputs of the render that armed the timer.         *)
(***************************************************************************)
QuoteStages == {"quote", "impact"}

InitQuote ==
    /\ NoInvocation
    /\ NoUnitsCall
    /\ NoHexCalls
    /\ NoProxyCall
    /\ NoTxCall
    /\ NoQuoteEffect
    /\ NoAside

\* lines 636-640, 745-754: a dependency changes with both tokens picked; the
\* effect clears the pending timer and arms a new one (220 ms); it has no
\* cleanup, does not reset the quote and does not cancel requests in flight
EditInput ==
    /\ inputGen < MaxEdits
    /\ inputGen' = inputGen + 1
    /\ debounce' = inputGen + 1
    /\ UNCHANGED <<workflow, aside, others, unitsCall, hexCalls, proxyCall, txCall, inflight, quote,
                   quoting, impact>>

\* lines 640-654, 683-693: the timer fires: setQuoting(true), setImpact(null)
\* and the request for the inputs the timer was armed with is sent
TimerFires ==
    /\ debounce # 0
    /\ inflight' = inflight \cup {<<debounce, "quote">>}
    /\ quoting' = TRUE
    /\ debounce' = 0
    /\ impact' = 0
    /\ UNCHANGED <<workflow, aside, others, unitsCall, hexCalls, proxyCall, txCall, inputGen, quote>>

\* lines 655-664, 694-716, 739-744: the request is answered (a quote, an
\* error body or a thrown fetch): setQuote with the result for the inputs of
\* the request, whatever the inputs are now; then either the impact quote is
\* awaited or the callback ends with setQuoting(false)
QuoteAnswered ==
    \E g \in 1..inputGen, positive \in BOOLEAN :
      /\ <<g, "quote">> \in inflight
      /\ quote' = g
      /\ IF positive
           THEN /\ inflight' = (inflight \ {<<g, "quote">>}) \cup {<<g, "impact">>}
                /\ UNCHANGED quoting
           ELSE /\ inflight' = inflight \ {<<g, "quote">>}
                /\ quoting' = FALSE
      /\ UNCHANGED <<workflow, aside, others, unitsCall, hexCalls, proxyCall, txCall, inputGen,
                     debounce, impact>>

\* lines 664-680, 719-736, 742-744, 303-328: miniQuoteTokens never throws; with
\* a tiny quote setImpact is called; the callback ends with setQuoting(false)
ImpactAnswered ==
    \E g \in 1..inputGen, tiny \in BOOLEAN :
      /\ <<g, "impact">> \in inflight
      /\ inflight' = inflight \ {<<g, "impact">>}
      /\ impact' = IF tiny THEN g ELSE impact
      /\ quoting' = FALSE
      /\ UNCHANGED <<workflow, aside, others, unitsCall, hexCalls, proxyCall, txCall, inputGen,
                     debounce, quote>>

NextQuote ==
    \/ EditInput
    \/ TimerFires
    \/ QuoteAnswered
    \/ ImpactAnswered

SpecQuote == InitQuote /\ [][NextQuote]_vars

(***************************************************************************)
(* readAllowance(owner, spender, token), page.tsx lines 222-240.  A bigint *)
(* is kept as its hexadecimal digits without leading zeros, so that 2^255  *)
(* is a value of the model.                                                *)
(***************************************************************************)
\* the characters 0-9a-fA-F with their values
HexDigitValue(c) ==
    IF \E v \in 0..15 : HexChars[v + 1] = c THEN CHOOSE v \in 0..15 : HexChars[v + 1] = c
    ELSE CASE c = "A" -> 10 [] c = "B" -> 11 [] c = "C" -> 12 [] c = "D" -> 13
           [] c = "E" -> 14 [] c = "F" -> 15

\* digits without their leading zeros; <<"0">> for zero
RECURSIVE StripZeros(_)
StripZeros(ds) ==
    IF Len(ds) <= 1 THEN (IF ds = <<>> THEN <<"0">> ELSE ds)
    ELSE IF ds[1] = "0" THEN StripZeros(Tail(ds))
    ELSE ds

\* BigInt(text) of a 0x-prefixed hexadecimal text
BigIntOfHex(cs) ==
    [kind |-> "bigint",
     digits |-> StripZeros([k \in 1..(Len(cs) - 2) |-> HexChars[HexDigitValue(cs[k + 2]) + 1]])]

\* BigInt(2) ** BigInt(e)
Pow2(e) == [kind |-> "bigint", digits |-> <<HexChars[2 ^ (e % 4) + 1]>> \o Repeat("0", e \div 4)]

\* a call that threw: the error and the number of eth_call requests it had sent
Threw(msg, n) == [kind |-> "throw", message |-> msg, calls |-> n]

\* a call that returned
Returned(v, n) == [kind |-> "return", value |-> v, calls |-> n]

readAllowance_wallet_first(token, wallet, answer) ==
    IF ~wallet THEN Threw("Wallet not found", 0)
    ELSE IF toLowerCase(token) = toLowerCase(NATIVE) THEN Returned(Pow2(255), 0)
    ELSE IF answer.rejects THEN Threw("rpc", 1)
    ELSE LET text == IF answer.chars = <<>> THEN <<"0", "x", "0">> ELSE answer.chars
         IN  IF IsHex(text) THEN Returned(BigIntOfHex(text), 1) ELSE Threw("SyntaxError", 1)

\* lines 222-240: the native test, the wallet test, one eth_call, BigInt(hex || "0x0")
readAllowance(token, wallet, answer) ==
    IF toLowerCase(token) = toLowerCase(NATIVE) THEN Returned(Pow2(255), 0)
    ELSE IF ~wallet THEN Threw("Wallet not found", 0)
    ELSE IF answer.rejects THEN Threw("rpc", 1)
    ELSE LET text == IF answer.chars = <<>> THEN <<"0", "x", "0">> ELSE answer.chars
         IN  IF IsHex(text) THEN Returned(BigIntOfHex(text), 1) ELSE Threw("SyntaxError", 1)

\* the digits of the quantities the node answers with
QuantityChars == {"0", "1", "f", "F"}

\* what eth_call yields: a failure, an empty result, "0x" (no return data), a quantity
RpcAnswers ==
    {[rejects |-> TRUE, chars |-> <<>>], [rejects |-> FALSE, chars |-> <<>>],
     [rejects |-> FALSE, chars |-> <<"0", "x">>]}
    \cup {[rejects |-> FALSE, chars |-> <<"0", "x">> \o ds] :
             ds \in UNION {[1..n -> QuantityChars] : n \in 1..MaxTextLen}}

InitAllowance ==
    /\ NoInvocation
    /\ NoUnitsCall
    /\ NoHexCalls
    /\ NoProxyCall
    /\ NoTxCall
    /\ NoQuoteEffect
    /\ NoChainEffect
    /\ NoMetaCall
    /\ raToken \in {NATIVE, NATIVE_LC, TOKEN_X, TOKEN_X_LC}
    /\ raWallet \in BOOLEAN
    /\ raAnswer \in RpcAnswers
    /\ raResult = NotCalled

CallReadAllowance ==
    /\ raResult = NotCalled
    /\ raResult' = readAllowance(raToken, raWallet, raAnswer)
    /\ UNCHANGED <<workflow, others, unitsCall, hexCalls, proxyCall, txCall, quoteEffect,
                   chainEffect, metaCall, raToken, raWallet, raAnswer>>

NextAllowance == CallReadAllowance

SpecAllowance == InitAllowance /\ [][NextAllowance]_vars

(***************************************************************************)
(* The chain-change effect of Page (lines 587-621).  Every run of the      *)
(* effect is kept with the chain it was started for, the await it is       *)
(* suspended at ("tokens", "spender", or "done") and its `stop` flag, set  *)
(* by the cleanup when the chain changes again.                            *)
(***************************************************************************)
ChainIds == {DefaultChainId, OtherChainId}

\* lines 588-593: the effect's body up to its first await
StartLoad(n, c) == [run |-> n, chain |-> c, stage |-> "tokens", stop |-> FALSE]

\* the page after mount: the effect has run for the default chain
InitChainEffect ==
    /\ NoInvocation
    /\ NoUnitsCall
    /\ NoHexCalls
    /\ NoProxyCall
    /\ NoTxCall
    /\ NoQuoteEffect
    /\ NoAllowanceCall
    /\ NoMetaCall
    /\ chainId = DefaultChainId
    /\ loads = {StartLoad(1, DefaultChainId)}
    /\ tokensFor = 0
    /\ spenderFor = 0

\* line 1067, 617-620, 588-593: another chain is selected: the cleanup of the last run
\* sets its stop flag, the effect resets the tokens and the spender and starts a run
SelectChain ==
    \E c \in ChainIds \ {chainId} :
      /\ Cardinality(loads) < MaxSelects
      /\ chainId' = c
      /\ loads' = {[l EXCEPT !.stop = TRUE] : l \in loads}
                     \cup {StartLoad(Cardinality(loads) + 1, c)}
      /\ tokensFor' = 0
      /\ spenderFor' = 0
      /\ UNCHANGED <<workflow, others, unitsCall, hexCalls, proxyCall, txCall, quoteEffect,
                     allowanceCall, metaCall>>

\* lines 595-611, 613-615: fetchTokens resolves or rejects; if (stop) return; setTokens
TokensFetched ==
    \E l \in loads, rejected \in BOOLEAN :
      /\ l.stage = "tokens"
      /\ IF rejected \/ l.stop
         THEN /\ loads' = (loads \ {l}) \cup {[l EXCEPT !.stage = "done"]}
              /\ UNCHANGED tokensFor
         ELSE /\ loads' = (loads \ {l}) \cup {[l EXCEPT !.stage = "spender"]}
              /\ tokensFor' = l.chain
      /\ UNCHANGED <<workflow, others, unitsCall, hexCalls, proxyCall, txCall, quoteEffect,
                     allowanceCall, metaCall, chainId, spenderFor>>

\* lines 611-612, 155-162: getSpender resolves (it never rejects); setSpender(sp),
\* with no test of stop
SpenderLoaded ==
    \E l \in loads :
      /\ l.stage = "spender"
      /\ loads' = (loads \ {l}) \cup {[l EXCEPT !.stage = "done"]}
      /\ spenderFor' = l.chain
      /\ UNCHANGED <<workflow, others, unitsCall, hexCalls, proxyCall, txCall, quoteEffect,
                     allowanceCall, metaCall, chainId, tokensFor>>

NextChainEffect == SelectChain \/ TokensFetched \/ SpenderLoaded

SpecChainEffect == InitChainEffect /\ [][NextChainEffect]_vars

(***************************************************************************)
(* The decimals read of the token-metadata endpoint, erc20meta/route.ts    *)
(* lines 38-41 and 108-113.                                                *)
(***************************************************************************)
\* Number(b) of a bigint
RECURSIVE NumberOfDigits(_)
NumberOfDigits(ds) ==
    IF ds = <<>> THEN 0
    ELSE HexDigitValue(ds[1]) * (16 ^ (Len(ds) - 1)) + NumberOfDigits(Tail(ds))

\* lines 38-41: 0 for an empty text and for "0x", else Number(BigInt(hex)); BigInt
\* throws on a text that is no number
hexToNumber(cs) ==
    IF cs = <<>> \/ cs = <<"0", "x">> THEN 0
    ELSE IF IsHex(cs) THEN NumberOfDigits(BigIntOfHex(cs).digits)
    ELSE -1

\* token.decimals
Decimals(n) == [kind |-> "decimals", n |-> n]

\* lines 108-113: let decimals = 18; try { decimals = hexToNumber(decHex) || 18 } catch {}
ReadDecimals(answer) ==
    IF answer.rejects THEN Decimals(18)
    ELSE LET n == hexToNumber(answer.chars)
         IN  IF n = -1 \/ n = 0 THEN Decimals(18) ELSE Decimals(n)

InitMeta ==
    /\ NoInvocation
    /\ NoUnitsCall
    /\ NoHexCalls
    /\ NoProxyCall
    /\ NoTxCall
    /\ NoQuoteEffect
    /\ NoAllowanceCall
    /\ NoChainEffect
    /\ decHex \in RpcAnswers
    /\ tokenDecimals = NotCalled

CallReadDecimals ==
    /\ tokenDecimals = NotCalled
    /\ tokenDecimals' = ReadDecimals(decHex)
    /\ UNCHANGED <<workflow, others, unitsCall, hexCalls, proxyCall, txCall, quoteEffect,
                   allowanceCall, chainEffect, decHex>>

NextMeta == CallReadDecimals

SpecMeta == InitMeta /\ [][NextMeta]_vars

(***************************************************************************)
(* C11.  No failure is silent: an invocation that ended without handing a  *)
(* swap transaction to the wallet has reported a message.                  *)
(***************************************************************************)
C11_EveryFailureIsReported ==
    (pc = "done" /\ Count("swapTx") = 0) => report # "none"

(***************************************************************************)
(* C12.  While one invocation of onSwap is in flight, no second invocation *)
(* for the same source token is.                                           *)
(***************************************************************************)
C12_OneWorkflowAtATime ==
    pc \notin {"idle", "done"} => others = 0

(***************************************************************************)
(* C13.  For an amount text of the form digits[.digits], toUnits returns   *)
(* the decimal text of integerPart * 10^decimals + F, where F is the value *)
(* of the fraction digits cut to `decimals` digits when there are more and *)
(* followed by zeros up to `decimals` digits when there are fewer; and     *)
(* toUnits("0", d) is "0".                                                 *)
(***************************************************************************)
WellFormedAmount ==
    /\ Len(amount) >= 1
    /\ amount[1] \in DecimalDigits
    /\ \A k \in 1..Len(amount) : amount[k] \in DecimalDigits \cup {"."}
    /\ Cardinality({k \in 1..Len(amount) : amount[k] = "."}) <= 1

C13_ToUnitsIsScaledTruncation ==
    (units # <<>> /\ WellFormedAmount) =>
        LET dots == {k \in 1..Len(amount) : amount[k] = "."}
            dot == IF dots = {} THEN Len(amount) + 1 ELSE CHOOSE k \in dots : TRUE
            ip == SubSeq(amount, 1, dot - 1)
            fp == SubSeq(amount, dot + 1, Len(amount))
            F == IF Len(fp) >= decimals THEN BigInt(SubSeq(fp, 1, decimals))
                 ELSE BigInt(fp) * (10 ^ (decimals - Len(fp)))
        IN  /\ units = toString(BigInt(ip) * (10 ^ decimals) + F, 10)
            /\ amount = <<"0">> => units = <<"0">>

C13_Witness ==
    /\ amount = <<"1", ".", "1", "9">>
    /\ decimals = 1
    /\ units = <<"1", "1">>

(***************************************************************************)
(* C14.  For a negative input (a number, a decimal text, an arbitrary-     *)
(* precision integer) toHex returns "0x0".                                 *)
(***************************************************************************)
NegativeInput ==
    \/ val.kind = "number" /\ val.halves < 0
    \/ val.kind = "bigint" /\ val.n < 0
    \/ val.kind = "string" /\ IsNumeric(val.chars) /\ val.chars # <<>> /\ val.chars[1] = "-"

C14_NegativeIsClampedToZero ==
    (hex # NotCalled /\ NegativeInput) => hex = Str(<<"0", "x", "0">>)

(***************************************************************************)
(* C15.  toHex(toHex(v)) = toHex(v) for every value v.                     *)
(***************************************************************************)
C15_ToHexIsIdempotent ==
    hexAgain # NotCalled => hexAgain = hex

(***************************************************************************)
(* C16.  A proxy handler never throws, and when the upstream request       *)
(* failed or was answered with a non-2xx status its result has ok = false  *)
(* and carries an error description.                                       *)
(***************************************************************************)
C16_ProxiesNeverThrow ==
    response # NotCalled =>
        /\ ~response.thrown
        /\ (upstream.rejects \/ ~ResponseOk(upstream)) =>
              (response.ok = "false" /\ response.error # Nil)

(***************************************************************************)
(* C17.  An allowance read that fails during the polling of doApprove does *)
(* not end the invocation: it is never followed by onSwap's rejection.     *)
(***************************************************************************)
C17_PollReadFailureIsTolerated ==
    \A i \in 1..(Len(events) - 1) :
        events[i] = "readFailed" => events[i + 1] # "throw"

(***************************************************************************)
(* C18.  The poll loop of doApprove makes at most 15 reads and every round *)
(* that stays in the loop advances the clock and the count of reads; a     *)
(* read that observes a sufficient allowance makes doApprove return true   *)
(* at once, and doApprove returns false only when the 30-second window has *)
(* elapsed with the allowance still short.                                 *)
(***************************************************************************)
MaxPolls == PollWindow \div PollInterval

\* one round of the poll loop has been made
PollRound == pc = "awaitPoll" /\ (pc' # "awaitPoll" \/ polls' # polls)

C18_PollingIsBounded ==
    [][PollRound =>
         /\ polls < MaxPolls
         /\ pc' = "awaitPoll" => (polls' = polls + 1 /\ elapsed' > elapsed
                                    /\ ~Sufficient(allowance[spenderToUse], needUnits))
         /\ approved' = "true" => Sufficient(allowance[spenderToUse], needUnits)
         /\ (Sufficient(allowance[spenderToUse], needUnits)
               /\ events'[Len(events')] # "throw") => approved' = "true"
         /\ approved' = "false" => (elapsed' >= PollWindow
                                      /\ ~Sufficient(allowance[spenderToUse], needUnits))]_vars

C18_Witness ==
    /\ pc = "awaitPoll"
    /\ polls = MaxPolls - 1
    /\ elapsed = PollWindow - PollInterval
    /\ ~Sufficient(allowance[spenderToUse], needUnits)

(***************************************************************************)
(* C19.  When the wallet answers the switch request with "unrecognized     *)
(* chain" (4902), the next request is wallet_addEthereumChain.             *)
(***************************************************************************)
C19_UnknownChainIsAdded ==
    \A i \in 1..Len(events) :
        events[i] = "unrecognized" =>
            (i < Len(events) /\ events[i + 1] = "wallet_addEthereumChain")

(***************************************************************************)
(* C20.  When ensureChain fails at the start of onSwap, the invocation     *)
(* ends with a reported message, having issued no build request, no        *)
(* allowance read and no wallet transaction, and having asked the wallet   *)
(* to switch at most once.                                                 *)
(***************************************************************************)
\* the wallet refused a request of the first ensureChain
ChainFailedAtStart ==
    \E i \in 1..Len(events) :
        /\ events[i] \in {"rejected", "unrecognized"}
        /\ \A k \in 1..(i - 1) : events[k] \in {"ensureChain", "eth_chainId", "switchChain"}

C20_ChainFailureIsTerminal ==
    ChainFailedAtStart =>
        /\ pc = "done"
        /\ report \in {"switchNetwork", "addNetwork"}
        /\ Count("build") = 0
        /\ Count("readAllowance") = 0
        /\ Count("approveTx") = 0
        /\ Count("swapTx") = 0
        /\ Count("ensureChain") = 1
        /\ Count("switchChain") <= 1

C20_Witness ==
    /\ ChainFailedAtStart
    /\ Count("switchChain") = 1
    /\ report = "addNetwork"

(***************************************************************************)
(* C21.  A swap transaction is handed to the wallet only when the payload  *)
(* (data.tx, or data itself when there is no data.tx) has both `to` and    *)
(* `data`; a built result without them ends in the invalid-payload report  *)
(* with no swap request.                                                   *)
(***************************************************************************)
C21_NoSwapWithoutToAndData ==
    /\ Count("swapTx") > 0 => (first # <<>> /\ first[1].json.tx \in {"nested", "flat"})
    /\ (pc = "done" /\ first # <<>> /\ first[1].ok /\ first[1].json.tx \in {"noTo", "none"}
         /\ events[Len(events)] = "alert" /\ report # "pending") =>
            (report = "invalidPayload" /\ Count("swapTx") = 0)

C21_Witness ==
    /\ pc = "done"
    /\ first # <<>>
    /\ first[1].ok
    /\ first[1].json.tx = "noTo"
    /\ report = "invalidPayload"
    /\ Count("swapTx") = 0

(***************************************************************************)
(* C22.  The request's `value` is the normalized payload value when that   *)
(* is a hex value and "0x0" otherwise; each of gas, gasPrice, maxFeePerGas *)
(* and maxPriorityFeePerGas is in the request exactly when the payload     *)
(* field normalizes to a hex value, and then holds it.                     *)
(***************************************************************************)
\* a text 0x followed by hex digits
HexValue(v) == v.kind = "string" /\ IsHex(v.chars)

C22_TxFieldsAreNormalized ==
    txParams # NotCalled =>
        /\ txParams["value"] = IF HexValue(toHex(payload["value"])) THEN toHex(payload["value"])
                               ELSE Str(<<"0", "x", "0">>)
        /\ \A f \in TxFields \ {"value"} :
              /\ txParams[f] # Absent <=> HexValue(toHex(payload[f]))
              /\ txParams[f] # Absent => txParams[f] = toHex(payload[f])

(***************************************************************************)
(* C23.  For every amount text and every decimals >= 0, toUnits does not   *)
(* throw and returns the decimal text of a non-negative integer; when      *)
(* neither of the first two dot-separated segments holds a digit, that     *)
(* integer is zero.                                                        *)
(***************************************************************************)
C23_ToUnitsNeverThrows ==
    units # <<>> =>
        /\ units # SyntaxError
        /\ \A k \in 1..Len(units) : units[k] \in DecimalDigits
        /\ (\A k \in 1..Len(amount) :
               amount[k] \in DecimalDigits =>
                  Cardinality({m \in 1..(k - 1) : amount[m] = "."}) >= 2)
             => units = <<"0">>

C23_Witness ==
    /\ amount = <<"-", ".", "-", "1">>
    /\ decimals = 2
    /\ units = <<"1", "0">>

(***************************************************************************)
(* C24.  toHex returns undefined or a canonical hex text: "0x" followed by *)
(* one or more lowercase hexadecimal digits.                               *)
(***************************************************************************)
CanonicalHex(v) ==
    /\ v.kind = "string"
    /\ Len(v.chars) >= 3
    /\ v.chars[1] = "0"
    /\ v.chars[2] = "x"
    /\ \A k \in 3..Len(v.chars) : v.chars[k] \in {HexChars[d] : d \in 1..16}

C24_ToHexIsCanonicalOrUndefined ==
    hex # NotCalled => (hex = Undefined \/ CanonicalHex(hex))

(***************************************************************************)
(* C25.  A swap request forwarded to the aggregator carries a fee of at    *)
(* most 3 percent, whatever fee is configured; and where the route         *)
(* receives slippageBps, the slippage it sends is slippageBps / 100        *)
(* percent.                                                                *)
(***************************************************************************)
C25_FeeIsCapped ==
    (forwarded # NotCalled /\ route \in {"swap", "swapPayload"}) =>
        /\ forwarded.fee <= 300
        /\ route = "swap" =>
              forwarded.slippage = IF request.slippageBps = -1 THEN 50
                                   ELSE request.slippageBps

(***************************************************************************)
(* C26.  A request with a required field missing (for the metadata         *)
(* endpoint: an unsupported chain or a malformed address) is answered with *)
(* an error description and no upstream request.                           *)
(***************************************************************************)
C26_InvalidInputMakesNoCall ==
    (response # NotCalled /\ request.body = "incomplete") =>
        /\ forwarded = NotCalled
        /\ ~response.thrown
        /\ response.error # Nil

(***************************************************************************)
(* C27.  Even if the aggregator never answers a build request, every       *)
(* invocation of onSwap that started reaches its end (a transaction        *)
(* submitted or a failure reported).                                       *)
(***************************************************************************)
C27_InvocationsEnd ==
    (pc # "idle") ~> (pc = "done")

(***************************************************************************)
(* C28.  No step of an invocation of onSwap changes the application state: *)
(* the account, the selected source token, the amount, the cached spender  *)
(* and the held quote stay as they were, whether the invocation succeeds   *)
(* or fails.                                                               *)
(***************************************************************************)
C28_OnSwapKeepsPageState ==
    [][inputs' = inputs /\ quote' = quote]_vars

C28_Witness ==
    /\ pc = "done"
    /\ report = "submitted"
    /\ Count("getSpender") = 1
    /\ Signed("approveTx") = 1
    /\ spender = Nil

\* no timer is armed and no request is awaiting its answer
QuotesSettled == debounce = 0 /\ inflight = {}

\* after an input change the held quote is not one computed for earlier inputs
NoStaleQuote == quote = 0 \/ quote = inputGen

\* once every request has settled the held quote is the one for the latest inputs
LatestQuoteWins == QuotesSettled => quote = inputGen

(***************************************************************************)
(* C29.  The held quote is discarded when an input changes: the quote      *)
(* state never holds a result computed for earlier inputs, and once all    *)
(* overlapping requests have settled the quote held is the one for the     *)
(* latest inputs.                                                          *)
(***************************************************************************)
C29_QuoteIsForLatestInputs ==
    /\ NoStaleQuote
    /\ LatestQuoteWins

(***************************************************************************)
(* C30.  Every approval transaction handed to the wallet by                *)
(* approveUnlimited authorizes 2^256 - 1, never the required amount,       *)
(* whether it was built by the approve proxy or is the raw approve of the  *)
(* fallback.                                                               *)
(***************************************************************************)
C30_ApprovalsAreUnlimited ==
    \A p \in pending : p.value = MAX_UINT256 /\ p.value # needUnits

\* an approval built by the approve proxy is awaiting its mining
ProxyApprovalPending ==
    needUnits > 0 /\ \E p \in pending : p.path = "proxy"

\* the proxy-built approval was rejected in the wallet and the raw approve signed
C30_Witness ==
    /\ needUnits > 0
    /\ Count("approveTx") = 2
    /\ Signed("approveTx") = 1
    /\ \E p \in pending : p.path = "raw" /\ p.spender = spenderToUse

(***************************************************************************)
(* The state machine of one swap attempt and the state of it an invocation *)
(* of onSwap is in.  Success, AllowanceFailure, OtherFailure, Approved and *)
(* ApprovalTimeout are the outcomes that label its transitions.            *)
(***************************************************************************)
MachineState(p, r) ==
    CASE p \in {"idle", "awaitChain"} -> "Idle"
      [] p = "awaitBuild1" -> "Building(first)"
      [] p \in {"awaitSpender", "awaitAllowance", "awaitApproveChain", "awaitApproveFetch",
                "awaitApproveProxyTx", "awaitApproveRawTx", "awaitPoll"} -> "Approving"
      [] p = "awaitBuild2" -> "Building(retry)"
      [] p = "awaitSwapTx" -> "Submitting"
      [] p = "done" /\ r \in {"submitted", "walletError"} -> "Done"
      [] OTHER -> "Failed"

\* the transitions of the machine, with the guards and the chain check before it
MachineTransitions ==
    { <<"Idle", "Building(first)">>, <<"Idle", "Failed">>,
      <<"Building(first)", "Submitting">>,
      <<"Building(first)", "Approving">>,
      <<"Building(first)", "Failed">>,
      <<"Approving", "Building(retry)">>,
      <<"Approving", "Failed">>,
      <<"Building(retry)", "Submitting">>,
      <<"Submitting", "Done">> }

\* the step from machine state a to b carries the outcome the machine labels it with
OutcomeOf(a, b) ==
    /\ (a = "Building(first)" /\ b = "Approving") =>
           (first' # <<>> /\ containsAllowanceError(first'[1].json, first'[1].raw))
    /\ (a = "Building(first)" /\ b = "Submitting") => (first' # <<>> /\ first'[1].ok)
    /\ (a = "Approving" /\ b = "Building(retry)") => approved' = "true"
    /\ (a = "Approving" /\ b = "Failed") => approved' = "false"

MachineStep ==
    LET a == MachineState(pc, report)
        b == MachineState(pc', report')
    IN  a # b => (<<a, b>> \in MachineTransitions /\ OutcomeOf(a, b))

(***************************************************************************)
(* C31.  Every step of an invocation of onSwap is a transition of the      *)
(* stated machine, taken on the outcome that labels it: Idle,              *)
(* Building(first), then Submitting and Done, or Approving on an allowance *)
(* failure followed by Building(retry), Submitting, Done or by Failed on   *)
(* the approval's timeout, or Failed on another failure.                   *)
(***************************************************************************)
C31_RefinesStateMachine ==
    [][MachineStep]_vars

\* the value of hexadecimal digits
RECURSIVE ValueOfDigits(_)
ValueOfDigits(ds) ==
    IF ds = <<>> THEN 0
    ELSE ValueOfDigits(SubSeq(ds, 1, Len(ds) - 1)) * 16 + HexDigitValue(ds[Len(ds)])

\* the digits of 2^255: 8 followed by 63 zeros
IsTwoTo255(v) ==
    /\ v.kind = "bigint"
    /\ Len(v.digits) = 64
    /\ v.digits[1] = "8"
    /\ \A k \in 2..64 : v.digits[k] = "0"

\* the wallet exists and the node answered the eth_call with a quantity (or nothing)
QuantityAnswered ==
    /\ raWallet
    /\ ~raAnswer.rejects
    /\ raAnswer.chars # <<"0", "x">>

(***************************************************************************)
(* C32.  readAllowance of the native sentinel, in any letter case, returns *)
(* 2^255 after no eth_call, with or without a wallet; of any other token   *)
(* it returns the integer the node answered, after exactly one eth_call.   *)
(***************************************************************************)
C32_ReadAllowance ==
    raResult # NotCalled =>
        /\ raToken \in {NATIVE, NATIVE_LC} =>
              /\ raResult.kind = "return"
              /\ raResult.calls = 0
              /\ IsTwoTo255(raResult.value)
        /\ (raToken \in {TOKEN_X, TOKEN_X_LC} /\ QuantityAnswered) =>
              /\ raResult.kind = "return"
              /\ raResult.calls = 1
              /\ ValueOfDigits(raResult.value.digits) =
                    (IF raAnswer.chars = <<>> THEN 0
                     ELSE ValueOfDigits(SubSeq(raAnswer.chars, 3, Len(raAnswer.chars))))
        /\ raToken \in {TOKEN_X, TOKEN_X_LC} => raResult.calls <= 1

C32_Witness ==
    /\ raToken = NATIVE_LC
    /\ ~raWallet
    /\ raResult # NotCalled
    /\ raResult.kind = "return"

\* an ERC-20's allowance of 0xff1 was read with one eth_call
C32_ReadsQuantity ==
    /\ raToken = TOKEN_X
    /\ raAnswer.chars = <<"0", "x", "F", "f", "1">>
    /\ raResult # NotCalled
    /\ raResult.kind = "return"
    /\ raResult.value.digits = <<"f", "f", "1">>

(***************************************************************************)
(* C33.  When the wallet rejects the swap's eth_sendTransaction, the       *)
(* wallet's error is reported and the invocation ends: the rejection is    *)
(* the last answer in the log, followed by the alert and by no further     *)
(* request to the wallet or to the aggregator.                             *)
(***************************************************************************)
C33_SwapRejectionIsFinal ==
    \A i \in 1..(Len(events) - 1) :
        (events[i] = "swapTx" /\ events[i + 1] = "rejected") =>
            /\ pc = "done"
            /\ report = "walletError"
            /\ Len(events) = i + 2
            /\ events[i + 2] = "alert"
            /\ Count("swapTx") = 1

C33_Witness ==
    /\ pc = "done"
    /\ report = "walletError"
    /\ Count("build") = 2
    /\ Count("swapTx") = 1
    /\ events[Len(events) - 1] = "rejected"

\* the approvals signed on one path of approveUnlimited authorize the spender polled
ApprovesPolledSpender(path) ==
    \A p \in pending : p.path = path => p.spender = spenderToUse

(***************************************************************************)
(* C34.  The approval signed during approval recovery authorizes the       *)
(* spender whose allowance doApprove polls, whether the transaction was    *)
(* built by the approve proxy or is the raw approve.                       *)
(***************************************************************************)
C34_ApprovedSpenderIsPolled ==
    /\ ApprovesPolledSpender("raw")
    /\ ApprovesPolledSpender("proxy")

\* the raw approve authorizes the spender polled
C34_RawApprovesPolledSpender == ApprovesPolledSpender("raw")

(***************************************************************************)
(* C35.  The cached spender is null or the one fetched for the selected    *)
(* chain: a spender fetched for a chain selected earlier is never stored   *)
(* after the chain has changed.                                            *)
(***************************************************************************)
C35_CachedSpenderIsForSelectedChain ==
    spenderFor \in {0, chainId}

\* the token list held is none or the one fetched for the selected chain
TokensAreForSelectedChain ==
    tokensFor \in {0, chainId}

\* the step that hands the swap transaction to the wallet
SwapTxHanded == pc # "awaitSwapTx" /\ pc' = "awaitSwapTx"

(***************************************************************************)
(* C36.  When the swap transaction is handed to the wallet, the wallet's   *)
(* active chain is the chain the swap was built for, whatever changes of   *)
(* the wallet's chain happened while onSwap was suspended.                 *)
(***************************************************************************)
C36_SubmitsOnBuiltChain ==
    [][SwapTxHanded => walletChainId' = DefaultChainId]_vars

\* the reports of a failure
FailureReports ==
    {"connectWallet", "pickTokens", "noWallet", "switchNetwork", "addNetwork", "buildFailed",
     "pending", "invalidPayload"}

(***************************************************************************)
(* C37.  One invocation of onSwap hands at most one swap transaction to    *)
(* the wallet, and none once it has reported a failure (build failure,     *)
(* approval pending, invalid payload): the report ends the invocation.     *)
(***************************************************************************)
C37_AtMostOneSwapRequest ==
    /\ Count("swapTx") <= 1
    /\ report \in FailureReports =>
          /\ pc = "done"
          /\ Count("swapTx") = 0
          /\ events[Len(events)] = "alert"
          /\ Count("alert") = 1

C37_Witness ==
    /\ pc = "done"
    /\ report = "buildFailed"
    /\ approved = "true"
    /\ Count("build") = 2
    /\ Count("swapTx") = 0

(***************************************************************************)
(* C38.  The `quoting` flag is true whenever a quote request is in flight: *)
(* it is false only when no request awaits its answer, for every           *)
(* interleaving of overlapping requests.                                   *)
(***************************************************************************)
C38_QuotingWhileInFlight ==
    inflight # {} => quoting

\* with a single request in flight the flag is true
QuotingWhileOnlyRequestInFlight ==
    (inflight # {} /\ inputGen = 1) => quoting

\* the decimals() read succeeded: the node answered with a quantity
DecimalsReadSucceeded == ~decHex.rejects /\ IsHex(decHex.chars)

\* the precision the contract returned
ReturnedPrecision == ValueOfDigits(SubSeq(decHex.chars, 3, Len(decHex.chars)))

(***************************************************************************)
(* C39.  When the decimals() read succeeds the endpoint reports the        *)
(* precision the contract returned, 0 included; the default 18 is reported *)
(* only when the read fails.                                               *)
(***************************************************************************)
C39_DecimalsAreReported ==
    tokenDecimals # NotCalled =>
        /\ DecimalsReadSucceeded => tokenDecimals.n = ReturnedPrecision
        /\ decHex.rejects => tokenDecimals.n = 18

\* a precision other than 0 is reported as returned
NonZeroDecimalsAreReported ==
    (tokenDecimals # NotCalled /\ DecimalsReadSucceeded /\ ReturnedPrecision # 0) =>
        tokenDecimals.n = ReturnedPrecision

====
